---- MODULE Spec2Model ----
(***************************************************************************)
(* Queue scheduling and workflow state machine of the pet-grooming front   *)
(* desk (src/app.js): the DataStore facade (addQueue, updateQueue,         *)
(* deleteQueue, createServiceRecord, calculateServiceDuration) and the     *)
(* PetGroomingApp handlers that drive it (saveQueue, saveDeposit,          *)
(* saveCheckIn, saveCompletion, cancelQueue, updateQueueStatus).           *)
(*                                                                         *)
(* Every handler is split at its awaits: the part up to the awaited store  *)
(* write is one action, and the settling of that write (success or         *)
(* failure) together with the code that runs after the await is another.   *)
(* Writes in flight are kept in `pending`; they settle in any order.       *)
(*                                                                         *)
(* Representation.  An ISO timestamp is the clock value at which it was    *)
(* taken, one clock unit being TickMs milliseconds; null is 0.  A "HH:mm"  *)
(* string is the pair <<HH, mm>> and the empty string / null is <<>>.      *)
(* A null or empty id string is "" and a null document id is 0.            *)
(* Service names are ASCII stand-ins for the Thai names of the settings.   *)
(***************************************************************************)
EXTENDS Integers, Sequences, FiniteSets, TLC

VARIABLES
  queue,            \* this.data.queue: the in-memory queue entries, in push order
  serviceRecords,   \* this.data.serviceRecords
  pets,             \* this.data.pets: petId -> weight (0: no weight recorded)
  pending,          \* store writes issued and not yet settled, in issue order
  now,              \* the wall clock read by new Date()
  nextId,           \* the id the store assigns to the next added document
  currentQueueId,   \* app.currentQueueId (0 before any workflow modal is opened)
  editingQueueId,   \* app.editingQueueId (0 is null)
  modal,            \* the modal that is open ("none" when none is)
  alertMsg,         \* the alert() the last handler step left on screen ("": none)
  groomers,         \* this.data.groomers: the groomer documents
  dailySchedules,   \* this.data.dailySchedules: the schedules loaded from the store
  returned,         \* the last call of a query function and what it returned (<<>>: none)
  currentServiceId  \* app.currentServiceId (0 before a service record is opened)

vars == <<queue, serviceRecords, pets, pending, now, nextId,
          currentQueueId, editingQueueId, modal, alertMsg,
          groomers, dailySchedules, returned, currentServiceId>>

\* what the booking workflow neither reads nor writes
roster == <<groomers, dailySchedules, returned, currentServiceId>>

data == <<queue, serviceRecords, pets>>

----------------------------------------------------------------------------
(* Bounds of the model *)

MaxQueue == 1       \* bookings ever created in the workflow specification
MaxBookings == 3    \* bookings ever created in the booking specifications
MaxPending == 2     \* store writes in flight when a handler issues its own
MaxClock == 2       \* last value of the clock
MaxRecords == 2     \* service records created (written or in flight)

----------------------------------------------------------------------------
(* Program constants *)

DefaultDuration == 60        \* calculateServiceDuration: empty list, unknown service
MsPerMinute == 60000         \* createServiceRecord: (endTime - checkInTime) / 60000
TickMs == 30000              \* one clock unit of the model, in milliseconds
MinutesPerDay == 1440        \* Date arithmetic of addQueue wraps at midnight

Statuses == {"booking", "deposit", "check-in", "completed", "cancelled"}

\* settings.serviceDurations of getDefaultSettings, restricted to four of its
\* services.  bath = 'อาบน้ำ', bathcut = 'อาบน้ำ-ตัดขน ด้วยกรรไกร',
\* boarding = 'ฝากเลี้ยง', other = 'อื่นๆ'.  teeth = 'แปรงฟัน' is an add-on with
\* no entry.
serviceDurations == [bath |-> 60, bathcut |-> 120, boarding |-> 0, other |-> 30]

\* Array.prototype.sort() without comparator orders by UTF-16 code units; the
\* rank of each service name in that order (of the Thai originals).
SortRank == [boarding |-> 1, bath |-> 2, bathcut |-> 3, other |-> 4, teeth |-> 5]

----------------------------------------------------------------------------
(* Helpers for JavaScript values *)

\* { ...a, ...b }: the fields of b override those of a
Spread(a, b) == b @@ a

Has(r, f) == f \in DOMAIN r

\* Array.prototype.findIndex: 0 when no element has the id
RECURSIVE FindIndexFrom(_, _, _)
FindIndexFrom(s, id, i) ==
  IF i > Len(s) THEN 0
  ELSE IF s[i].id = id THEN i ELSE FindIndexFrom(s, id, i + 1)

FindIndex(s, id) == FindIndexFrom(s, id, 1)

\* serviceTypes.sort(): insertion into rank order
RECURSIVE Insert(_, _)
Insert(x, s) ==
  IF s = <<>> THEN <<x>>
  ELSE IF SortRank[x] <= SortRank[Head(s)] THEN <<x>> \o s
       ELSE <<Head(s)>> \o Insert(x, Tail(s))

RECURSIVE Sort(_)
Sort(s) == IF s = <<>> THEN <<>> ELSE Insert(Head(s), Sort(Tail(s)))

\* Array.prototype.join(',')
RECURSIVE Join(_)
Join(s) ==
  IF s = <<>> THEN ""
  ELSE IF Len(s) = 1 THEN s[1]
       ELSE s[1] \o "," \o Join(Tail(s))

\* variant: only the first service of the list counts
DurationOfFirst(s) ==
  IF s = <<>> THEN 0
  ELSE IF Has(serviceDurations, Head(s)) /\ serviceDurations[Head(s)] # 0
         THEN serviceDurations[Head(s)]
         ELSE DefaultDuration

\* durations[key] || 60 summed over the list
RECURSIVE SumDurations(_)
SumDurations(s) ==
  IF s = <<>> THEN 0
  ELSE (IF Has(serviceDurations, Head(s)) /\ serviceDurations[Head(s)] # 0
          THEN serviceDurations[Head(s)]
          ELSE DefaultDuration)
       + SumDurations(Tail(s))

\* DataStore.calculateServiceDuration(serviceTypes); the settings are always
\* the default settings, so the branch for a missing table is never taken.
calculateServiceDuration(serviceTypes) ==
  IF Len(serviceTypes) = 0 THEN DefaultDuration
  ELSE LET servicesKey == Join(Sort(serviceTypes))
       IN IF Has(serviceDurations, servicesKey) /\ serviceDurations[servicesKey] # 0
            THEN serviceDurations[servicesKey]
            ELSE SumDurations(serviceTypes)

\* calculateServiceDuration sorts the array it is given in place (sort() is
\* reached only for a non-empty list): the array as the caller sees it after
SortedInPlace(serviceTypes) ==
  IF Len(serviceTypes) = 0 THEN serviceTypes ELSE Sort(serviceTypes)

\* PetGroomingApp.calculateEndTime(startTime, durationMinutes)
calculateEndTime(startTime, durationMinutes) ==
  IF startTime = <<>> \/ durationMinutes = 0 THEN <<>>
  ELSE LET totalEndMins == startTime[1] * 60 + startTime[2] + durationMinutes
       IN <<totalEndMins \div 60, totalEndMins % 60>>

\* addQueue's own end time: Date arithmetic, read back with getHours/getMinutes
AddQueueEndTime(appointmentTime, duration) ==
  IF appointmentTime = <<>> THEN <<>>
  ELSE LET t == (appointmentTime[1] * 60 + appointmentTime[2] + duration) % MinutesPerDay
       IN <<t \div 60, t % 60>>

\* Math.round(ms / 60000) for a difference of d clock units
RoundMinutes(d) == (d * TickMs + MsPerMinute \div 2) \div MsPerMinute

----------------------------------------------------------------------------
(* The forms of the UI: what the handlers read from the DOM *)

Dates == {"2026-11-01", "2026-11-02"}

\* the queue form read by saveQueue
QueueForms(customers, petIds, groomerIds, mains, addonSets, dates, slots) ==
  [customerId : customers, petId : petIds, groomerId : groomerIds,
   serviceTypes : mains, addons : addonSets,
   selectedDate : dates, selectedTimeSlot : slots]

\* the forms of the workflow specification: the complete ones, and those with
\* one required field missing
CompleteForms ==
  QueueForms({"c1"}, {"p1"}, {""}, {<<"bath">>, <<"bathcut">>},
             {<<>>}, {"2026-11-01"}, {<<9, 0>>})

WorkflowForms ==
  CompleteForms
    \cup QueueForms({""}, {"p1"}, {""}, {<<"bath">>}, {<<>>}, {"2026-11-01"}, {<<9, 0>>})
    \cup QueueForms({"c1"}, {""}, {""}, {<<"bath">>}, {<<>>}, {"2026-11-01"}, {<<9, 0>>})
    \cup QueueForms({"c1"}, {"p1"}, {""}, {<<>>}, {<<>>}, {"2026-11-01"}, {<<9, 0>>})
    \cup QueueForms({"c1"}, {"p1"}, {""}, {<<"bath">>}, {<<>>}, {""}, {<<9, 0>>})

\* the forms of the booking specifications: two dates, one service
BookingForms ==
  QueueForms({"c1"}, {"p1"}, {""}, {<<"bath">>}, {<<>>}, Dates, {<<>>})

\* checkin-weight after parseFloat: 0 stands for NaN, empty and non-positive input
CheckInWeights == {0, 5}

\* the services ticked in the check-in modal
CheckInSelections == {<<"bathcut">>}

\* completion-groomer: "" is the placeholder option
CompletionGroomers == {"", "g1"}

\* alert() texts
MsgRequired == "required fields missing"        \* saveQueue
MsgNoDate == "appointment date missing"         \* saveQueue
MsgAddFailed == "booking failed"                \* addQueue catch
MsgUpdateFailed == "queue update failed"        \* updateQueue catch
MsgPetFailed == "pet update failed"             \* updatePet catch
MsgRecordFailed == "service record failed"      \* createServiceRecord catch
MsgDeleteFailed == "queue delete failed"        \* deleteQueue catch
MsgDepositSaved == "deposit saved"              \* saveDeposit
MsgNoWeight == "pet weight missing"             \* saveCheckIn
MsgCheckedIn == "check-in done"                 \* saveCheckIn
MsgNoGroomer == "servicing groomer missing"     \* saveCompletion
MsgCompleted == "job closed"                    \* saveCompletion
MsgRetry == "status not updated, retry"         \* saveCompletion

----------------------------------------------------------------------------
(* DataStore *)

\* getQueueById(id): defined when HasQueue(id)
HasQueue(id) == FindIndex(queue, id) # 0
getQueueById(id) == queue[FindIndex(queue, id)]

\* this.data.queue.filter(q => q.date === selectedDate)
getQueueByDate(dateString) ==
  LET OnDate(q) == q.date = dateString IN SelectSeq(queue, OnDate)

\* addQueue: the queue number read from the in-memory entries of the date
\* variant: a number from the count of all entries, whatever their date
QueueNumberGlobal(selectedDate) == Len(queue) + 1

\* variant: a number that also counts the bookings of the date still in flight
QueueNumberReserving(selectedDate) ==
  Len(getQueueByDate(selectedDate))
    + Len(SelectSeq(pending, LAMBDA w : w.kind = "queue.add"
                                         /\ w.newQueue.date = selectedDate))
    + 1

QueueNumberFor(selectedDate) == Len(getQueueByDate(selectedDate)) + 1

\* variant: the fields addQueue computes itself win over those of queueItem
NewQueueOwnFields(queueItem) ==
  LET item == [queueItem EXCEPT !.serviceType = SortedInPlace(@)]
      duration == calculateServiceDuration(queueItem.serviceType)
  IN Spread(item,
            [queueNumber |-> QueueNumberFor(item.date),
             date |-> item.date,
             appointmentTime |-> item.appointmentTime,
             estimatedEndTime |-> AddQueueEndTime(item.appointmentTime, duration),
             duration |-> duration,
             assignedGroomerId |-> item.assignedGroomerId,
             status |-> "booking",
             bookingAt |-> now,
             depositAt |-> 0,
             checkInWeight |-> 0,
             checkInAt |-> 0,
             completedAt |-> 0])

\* addQueue up to the awaited add: the document handed to the store.
\* calculateServiceDuration sorts queueItem.serviceType in place, and the
\* spread of queueItem overrides every default it carries.
NewQueue(queueItem) ==
  LET item == [queueItem EXCEPT !.serviceType = SortedInPlace(@)]
      duration == calculateServiceDuration(queueItem.serviceType)
  IN Spread([queueNumber |-> QueueNumberFor(item.date),
             date |-> item.date,
             appointmentTime |-> item.appointmentTime,
             estimatedEndTime |-> AddQueueEndTime(item.appointmentTime, duration),
             duration |-> duration,
             assignedGroomerId |-> item.assignedGroomerId,
             status |-> "booking",
             bookingAt |-> now,
             depositAt |-> 0,
             checkInWeight |-> 0,
             checkInAt |-> 0,
             completedAt |-> 0],
            item)

\* variant: a missing check-in timestamp is read as the epoch, not as now
ServiceRecordFromEpoch(q) ==
  LET endTime == IF q.completedAt # 0 THEN q.completedAt ELSE now
  IN [queueId |-> q.id,
      groomerId |-> q.groomerId,
      checkInAt |-> q.checkInAt,
      completedAt |-> IF q.completedAt # 0 THEN q.completedAt ELSE now,
      duration |-> RoundMinutes(endTime - q.checkInAt)]

\* createServiceRecord(queue): the record handed to the store (of its fields,
\* the back-reference, the servicing groomer, the two timestamps the duration
\* is computed from, and the duration)
ServiceRecordOf(q) ==
  LET checkInTime == IF q.checkInAt # 0 THEN q.checkInAt ELSE now
      endTime == IF q.completedAt # 0 THEN q.completedAt ELSE now
  IN [queueId |-> q.id,
      groomerId |-> q.groomerId,
      checkInAt |-> q.checkInAt,
      completedAt |-> IF q.completedAt # 0 THEN q.completedAt ELSE now,
      duration |-> RoundMinutes(endTime - checkInTime)]

\* variant: depositAt stamped on every entry into 'deposit'
DepositStampAlways(q, updates) ==
  IF Has(updates, "status") /\ updates.status = "deposit"
    THEN [depositAt |-> now] ELSE <<>>

\* updateQueue: the stage timestamps added to the update
DepositStamp(q, updates) ==
  IF Has(updates, "status") /\ updates.status = "deposit" /\ q.depositAt = 0
    THEN [depositAt |-> now] ELSE <<>>

CheckInStamp(q, updates) ==
  IF Has(updates, "status") /\ updates.status = "check-in" /\ q.checkInAt = 0
    THEN [checkInAt |-> now] ELSE <<>>

\* variant: a cancellation closes the job like a completion
CompletesOrCancels(q, updates) ==
  /\ Has(updates, "status")
  /\ updates.status \in {"completed", "cancelled"}
  /\ q.completedAt = 0

\* updateQueue: does this call stamp completedAt and create the service record
Completes(q, updates) ==
  Has(updates, "status") /\ updates.status = "completed" /\ q.completedAt = 0

CompletedStamp(q, updates) ==
  IF Completes(q, updates) THEN [completedAt |-> now] ELSE <<>>

TimestampUpdates(q, updates) ==
  DepositStamp(q, updates) @@ CheckInStamp(q, updates) @@ CompletedStamp(q, updates)

\* the in-memory collections at the start of an operation that no write in
\* flight can change meanwhile (<<>> otherwise)
Before == IF pending = <<>> THEN data ELSE <<>>

\* updateQueue(id, updates) up to the awaited update, called from `handler`:
\* the store writes it issues, in order.  None when the entry is not found.
\* `before` remembers the in-memory collections as the call found them, for a
\* call made with no other write in flight.
UpdateQueueWrites(id, updates, handler) ==
  IF ~HasQueue(id) THEN <<>>
  ELSE LET q == getQueueById(id)
           timestampUpdates == TimestampUpdates(q, updates)
           finalUpdates == Spread(updates, timestampUpdates)
       IN (IF Completes(q, updates)
             THEN <<[kind |-> "serviceRecords.add",
                     record |-> ServiceRecordOf(Spread(Spread(q, updates), timestampUpdates))]>>
             ELSE <<>>)
          \o (IF Has(updates, "checkInWeight") /\ updates.checkInWeight # 0 /\ q.petId # ""
                THEN <<[kind |-> "pets.weight", petId |-> q.petId,
                        weight |-> updates.checkInWeight]>>
                ELSE <<>>)
          \o <<[kind |-> "queue.update", id |-> id, finalUpdates |-> finalUpdates,
                handler |-> handler, before |-> Before]>>

----------------------------------------------------------------------------
(* Initial state: the DataStore constructor, one customer's pet loaded *)

Init ==
  /\ queue = <<>>
  /\ serviceRecords = <<>>
  /\ pets = [p1 |-> 0]
  /\ pending = <<>>
  /\ now = 1
  /\ nextId = 1
  /\ currentQueueId = 0
  /\ editingQueueId = 0
  /\ modal = "none"
  /\ alertMsg = ""
  /\ groomers = <<>>
  /\ dailySchedules = <<>>
  /\ returned = <<>>
  /\ currentServiceId = 0

\* the clock advances between any two steps
Tick ==
  /\ now < MaxClock
  /\ now' = now + 1
  /\ UNCHANGED <<roster, queue, serviceRecords, pets, pending, nextId,
                 currentQueueId, editingQueueId, modal, alertMsg>>

----------------------------------------------------------------------------
(* Opening and closing the modals (the buttons createQueueCard offers) *)

NonTerminal(id) ==
  HasQueue(id) /\ getQueueById(id).status \notin {"completed", "cancelled"}

QueueIds == {queue[i].id : i \in 1..Len(queue)}

showAddQueueModal ==
  /\ modal = "none"
  /\ editingQueueId' = 0
  /\ modal' = "queue"
  /\ alertMsg' = ""
  /\ UNCHANGED <<roster, queue, serviceRecords, pets, pending, now, nextId, currentQueueId>>

editQueue(id) ==
  /\ modal = "none"
  /\ NonTerminal(id)
  /\ editingQueueId' = id
  /\ modal' = "queue"
  /\ alertMsg' = ""
  /\ UNCHANGED <<roster, queue, serviceRecords, pets, pending, now, nextId, currentQueueId>>

\* showDepositModal, showCheckInModal, showCompletionModal: each is offered
\* on the card of an entry in the status before its stage
OpenStageModal(id, status, name) ==
  /\ modal = "none"
  /\ HasQueue(id)
  /\ getQueueById(id).status = status
  /\ currentQueueId' = id
  /\ modal' = name
  /\ alertMsg' = ""
  /\ UNCHANGED <<roster, queue, serviceRecords, pets, pending, now, nextId, editingQueueId>>

showDepositModal(id) == OpenStageModal(id, "booking", "deposit")
showCheckInModal(id) == OpenStageModal(id, "deposit", "checkin")
showCompletionModal(id) == OpenStageModal(id, "check-in", "completion")

\* the close button of the open modal
closeModal ==
  /\ modal # "none"
  /\ modal' = "none"
  /\ alertMsg' = ""
  /\ UNCHANGED <<roster, queue, serviceRecords, pets, pending, now, nextId, currentQueueId, editingQueueId>>

\* closeModal(name) in a handler: it closes that modal only
Closed(name) == IF modal = name THEN "none" ELSE modal

\* a handler starts with room for the writes it issues at once (the writes
\* its continuation issues after an await are not counted)
Room(n) == Len(pending) + n <= MaxPending

\* bound on the service records a run creates
RecordRoom ==
  Len(serviceRecords)
    + Len(SelectSeq(pending, LAMBDA w : w.kind = "serviceRecords.add")) < MaxRecords

----------------------------------------------------------------------------
(* saveQueue: create a booking or edit one *)

\* the required-field checks of saveQueue, in their order
MissingRequired(form) ==
  form.customerId = "" \/ form.petId = ""
    \/ Len(form.serviceTypes \o form.addons) = 0

\* variant: the date is not checked
NeverMissingDate(form) == FALSE

MissingDate(form) == form.selectedDate = ""

\* queueData of saveQueue.  The duration is that of the main services alone;
\* calculateServiceDuration has sorted serviceTypes before the add-ons are
\* appended.
QueueData(form) ==
  LET duration == calculateServiceDuration(form.serviceTypes)
  IN [customerId |-> form.customerId,
      petId |-> form.petId,
      groomerId |-> form.groomerId,
      assignedGroomerId |-> form.groomerId,
      serviceType |-> SortedInPlace(form.serviceTypes) \o form.addons,
      date |-> form.selectedDate,
      bookingAt |-> now,
      status |-> "booking",
      appointmentTime |-> form.selectedTimeSlot,
      estimatedEndTime |-> calculateEndTime(form.selectedTimeSlot, duration),
      duration |-> duration]

\* variant: the edit sends queueData whole, bookingAt and status included
EditDataWhole(form) == QueueData(form)

\* updateData of the edit path: queueData without bookingAt and status
EditData(form) ==
  LET queueData == QueueData(form)
  IN [f \in DOMAIN queueData \ {"bookingAt", "status"} |-> queueData[f]]

PendingAdds == Len(SelectSeq(pending, LAMBDA w : w.kind = "queue.add"))

saveQueue(form, cap) ==
  /\ modal = "queue"
  /\ IF MissingRequired(form)
       THEN /\ alertMsg' = MsgRequired
            /\ UNCHANGED <<roster, queue, serviceRecords, pets, pending, now, nextId,
                           currentQueueId, editingQueueId, modal>>
     ELSE IF MissingDate(form)
       THEN /\ alertMsg' = MsgNoDate
            /\ UNCHANGED <<roster, queue, serviceRecords, pets, pending, now, nextId,
                           currentQueueId, editingQueueId, modal>>
     ELSE IF editingQueueId # 0
       THEN /\ Room(1)
            /\ pending' = pending \o
                 UpdateQueueWrites(editingQueueId, EditData(form), "saveQueue")
            /\ alertMsg' = ""
            /\ UNCHANGED <<roster, queue, serviceRecords, pets, now, nextId, currentQueueId, editingQueueId, modal>>
     ELSE /\ Room(1)
          /\ (nextId - 1) + PendingAdds < cap
          /\ pending' = Append(pending,
                 [kind |-> "queue.add", newQueue |-> NewQueue(QueueData(form)),
                  before |-> Before])
          /\ alertMsg' = ""
          /\ UNCHANGED <<roster, queue, serviceRecords, pets, now, nextId, currentQueueId, editingQueueId, modal>>

----------------------------------------------------------------------------
(* What a handler does once its awaited updateQueue has returned *)

\* ok: updateQueue returned the updated entry (not null)
ModalAfter(handler, ok) ==
  CASE handler = "saveDeposit" -> Closed("deposit")
    [] handler = "saveCheckIn" -> Closed("checkin")
    [] handler = "saveCompletion" -> IF ok THEN Closed("completion") ELSE modal
    [] handler = "saveQueue" -> IF ok THEN Closed("queue") ELSE modal
    [] OTHER -> modal

\* shown: the last alert before the handler resumes
AlertAfter(handler, ok, shown) ==
  CASE handler = "saveDeposit" -> MsgDepositSaved
    [] handler = "saveCheckIn" -> MsgCheckedIn
    [] handler = "saveCompletion" -> IF ok THEN MsgCompleted ELSE MsgRetry
    [] OTHER -> shown

----------------------------------------------------------------------------
(* The workflow handlers, up to their first await *)

\* the handler calls updateQueue(id, updates): the writes go out, or, when the
\* entry is not in memory, updateQueue returns null at once and the handler
\* resumes
CallUpdateQueue(id, updates, handler) ==
  LET writes == UpdateQueueWrites(id, updates, handler)
  IN IF writes = <<>>
       THEN /\ modal' = ModalAfter(handler, FALSE)
            /\ alertMsg' = AlertAfter(handler, FALSE, "")
            /\ UNCHANGED pending
       ELSE /\ pending' = pending \o writes
            /\ alertMsg' = ""
            /\ UNCHANGED <<roster, modal>>

saveDeposit ==
  /\ modal = "deposit"
  /\ Room(1)
  /\ CallUpdateQueue(currentQueueId, [status |-> "deposit"], "saveDeposit")
  /\ UNCHANGED <<roster, queue, serviceRecords, pets, now, nextId,
                 currentQueueId, editingQueueId>>

\* saveCheckIn up to the awaited updatePet of this.currentPet (the one pet)
saveCheckIn(weight, selectedServices) ==
  /\ modal = "checkin"
  /\ IF weight <= 0
       THEN /\ alertMsg' = MsgNoWeight
            /\ UNCHANGED pending
       ELSE /\ Room(1)
            /\ pending' = Append(pending,
                  [kind |-> "pets.update", petId |-> "p1", weight |-> weight,
                   selectedServices |-> SortedInPlace(selectedServices),
                   duration |-> calculateServiceDuration(selectedServices)])
            /\ alertMsg' = ""
  /\ UNCHANGED <<roster, queue, serviceRecords, pets, now, nextId,
                 currentQueueId, editingQueueId, modal>>

\* no completion image is attached, so confirm() is asked: `confirmed` is the
\* user's answer.  `inFlight` bounds the store writes in flight once the
\* handler has issued its two.
saveCompletionWithin(groomerId, confirmed, inFlight) ==
  /\ modal = "completion"
  /\ IF groomerId = ""
       THEN /\ alertMsg' = MsgNoGroomer
            /\ UNCHANGED <<roster, pending, modal>>
     ELSE IF ~confirmed
       THEN /\ alertMsg' = ""
            /\ UNCHANGED <<roster, pending, modal>>
     ELSE /\ Len(pending) + 2 <= inFlight
          /\ RecordRoom
          /\ CallUpdateQueue(currentQueueId,
                [status |-> "completed", groomerId |-> groomerId], "saveCompletion")
  /\ UNCHANGED <<roster, queue, serviceRecords, pets, now, nextId,
                 currentQueueId, editingQueueId>>

saveCompletion(groomerId, confirmed) ==
  saveCompletionWithin(groomerId, confirmed, MaxPending)

\* cancelQueue(id): updateQueue is not awaited
cancelQueue(id, confirmed) ==
  /\ modal = "none"
  /\ NonTerminal(id)
  /\ IF confirmed
       THEN /\ Room(1)
            /\ CallUpdateQueue(id, [status |-> "cancelled"], "cancelQueue")
       ELSE /\ alertMsg' = ""
            /\ UNCHANGED <<roster, pending, modal>>
  /\ UNCHANGED <<roster, queue, serviceRecords, pets, now, nextId,
                 currentQueueId, editingQueueId>>

\* updateQueueStatus(id, status): updateQueue is not awaited
updateQueueStatus(id, status) ==
  /\ HasQueue(id)
  /\ Room(2)
  /\ RecordRoom
  /\ CallUpdateQueue(id, [status |-> status], "updateQueueStatus")
  /\ UNCHANGED <<roster, queue, serviceRecords, pets, now, nextId,
                 currentQueueId, editingQueueId>>

\* DataStore.deleteQueue(id) up to the awaited delete
deleteQueue(id) ==
  /\ HasQueue(id)
  /\ Room(1)
  /\ pending' = Append(pending, [kind |-> "queue.delete", id |-> id])
  /\ alertMsg' = ""
  /\ UNCHANGED <<roster, queue, serviceRecords, pets, now, nextId, currentQueueId, editingQueueId, modal>>

----------------------------------------------------------------------------
(* A store write settles: the code after the await *)

RemoveAt(s, i) == SubSeq(s, 1, i - 1) \o SubSeq(s, i + 1, Len(s))

\* this.data.queue[index] = { ...this.data.queue[index], ...finalUpdates }
MergeQueue(id, finalUpdates) ==
  LET index == FindIndex(queue, id)
  IN IF index = 0 THEN queue
     ELSE [queue EXCEPT ![index] = Spread(queue[index], finalUpdates)]

\* addQueue after the await, and saveQueue after addQueue
SettleAdd(i, ok) ==
  LET w == pending[i]
  IN /\ w.kind = "queue.add"
     /\ pending' = RemoveAt(pending, i)
     /\ IF ok
          THEN /\ queue' = Append(queue, Spread([id |-> nextId], w.newQueue))
               /\ nextId' = nextId + 1
               /\ modal' = Closed("queue")
               /\ alertMsg' = ""
          ELSE /\ alertMsg' = MsgAddFailed
               /\ UNCHANGED <<roster, queue, nextId, modal>>
     /\ UNCHANGED <<roster, serviceRecords, pets, now, currentQueueId, editingQueueId>>

\* updateQueue after the await, and the handler after updateQueue
SettleUpdate(i, ok) ==
  LET w == pending[i]
  IN /\ w.kind = "queue.update"
     /\ pending' = RemoveAt(pending, i)
     /\ queue' = IF ok THEN MergeQueue(w.id, w.finalUpdates) ELSE queue
     /\ modal' = ModalAfter(w.handler, ok)
     /\ alertMsg' = AlertAfter(w.handler, ok, IF ok THEN "" ELSE MsgUpdateFailed)
     /\ UNCHANGED <<roster, serviceRecords, pets, now, nextId, currentQueueId, editingQueueId>>

\* deleteQueue after the await
SettleDelete(i, ok) ==
  LET w == pending[i]
  IN /\ w.kind = "queue.delete"
     /\ pending' = RemoveAt(pending, i)
     /\ IF ok
          THEN /\ queue' = SelectSeq(queue, LAMBDA q : q.id # w.id)
               /\ alertMsg' = ""
          ELSE /\ alertMsg' = MsgDeleteFailed
               /\ UNCHANGED queue
     /\ UNCHANGED <<roster, serviceRecords, pets, now, nextId,
                    currentQueueId, editingQueueId, modal>>

\* createServiceRecord's then / catch
SettleRecord(i, ok) ==
  LET w == pending[i]
  IN /\ w.kind = "serviceRecords.add"
     /\ pending' = RemoveAt(pending, i)
     /\ IF ok
          THEN /\ serviceRecords' = Append(serviceRecords,
                     Spread([id |-> Len(serviceRecords) + 1], w.record))
               /\ alertMsg' = ""
          ELSE /\ alertMsg' = MsgRecordFailed
               /\ UNCHANGED serviceRecords
     /\ UNCHANGED <<roster, queue, pets, now, nextId, currentQueueId, editingQueueId, modal>>

\* the pet-weight update updateQueue fires and forgets: it changes the
\* store's document only, and its failure is logged
SettleWeight(i) ==
  /\ pending[i].kind = "pets.weight"
  /\ pending' = RemoveAt(pending, i)
  /\ alertMsg' = ""
  /\ UNCHANGED <<roster, queue, serviceRecords, pets, now, nextId, currentQueueId, editingQueueId, modal>>

\* updateData of saveCheckIn, built after updatePet from the entry in memory
CheckInData(w) ==
  LET q == getQueueById(currentQueueId)
      updateData == [status |-> "check-in", checkInWeight |-> w.weight,
                     serviceType |-> w.selectedServices, duration |-> w.duration]
  IN IF q.appointmentTime # <<>>
       THEN Spread(updateData,
              [estimatedEndTime |-> calculateEndTime(q.appointmentTime, w.duration)])
       ELSE updateData

\* updatePet after the await, and saveCheckIn after updatePet: it reads the
\* entry of currentQueueId (a TypeError ends the handler when there is none)
\* and calls updateQueue
SettlePet(i, ok) ==
  LET w == pending[i]
      rest == RemoveAt(pending, i)
  IN /\ w.kind = "pets.update"
     /\ pets' = IF ok THEN [pets EXCEPT ![w.petId] = w.weight] ELSE pets
     /\ IF HasQueue(currentQueueId)
          THEN pending' = rest \o
                 UpdateQueueWrites(currentQueueId, CheckInData(w), "saveCheckIn")
          ELSE pending' = rest
     /\ alertMsg' = IF ok THEN "" ELSE MsgPetFailed
     /\ UNCHANGED <<roster, queue, serviceRecords, now, nextId,
                    currentQueueId, editingQueueId, modal>>

Settle ==
  \E i \in 1..Len(pending) :
    \/ \E ok \in BOOLEAN :
         SettleAdd(i, ok) \/ SettleUpdate(i, ok) \/ SettleDelete(i, ok)
           \/ SettleRecord(i, ok) \/ SettlePet(i, ok)
    \/ SettleWeight(i)

----------------------------------------------------------------------------
(* Specifications *)

\* the workflow of the queue entries: every handler, interleaved at the awaits
Next ==
  \/ Tick
  \/ showAddQueueModal
  \/ closeModal
  \/ \E form \in WorkflowForms : saveQueue(form, MaxQueue)
  \/ \E id \in QueueIds :
       \/ editQueue(id)
       \/ showDepositModal(id)
       \/ showCheckInModal(id)
       \/ showCompletionModal(id)
       \/ \E confirmed \in BOOLEAN : cancelQueue(id, confirmed)
  \/ saveDeposit
  \/ \E weight \in CheckInWeights, sel \in CheckInSelections : saveCheckIn(weight, sel)
  \/ \E groomerId \in CompletionGroomers, confirmed \in BOOLEAN :
       saveCompletion(groomerId, confirmed)
  \/ Settle

Spec == Init /\ [][Next]_vars

\* run to completion: a handler starts only when no store write is in flight.
\* Every workflow entry point of the app, updateQueueStatus included.
NextSeq ==
  \/ Tick
  \/ Settle
  \/ /\ pending = <<>>
     /\ \/ showAddQueueModal
        \/ closeModal
        \/ \E form \in WorkflowForms : saveQueue(form, MaxQueue)
        \/ \E id \in QueueIds :
             \/ editQueue(id)
             \/ showDepositModal(id)
             \/ showCheckInModal(id)
             \/ showCompletionModal(id)
             \/ \E confirmed \in BOOLEAN : cancelQueue(id, confirmed)
             \/ \E status \in Statuses : updateQueueStatus(id, status)
        \/ saveDeposit
        \/ \E weight \in CheckInWeights, sel \in CheckInSelections :
             saveCheckIn(weight, sel)
        \/ \E groomerId \in CompletionGroomers, confirmed \in BOOLEAN :
             saveCompletion(groomerId, confirmed)

SpecSeq == Init /\ [][NextSeq]_vars

\* managing the bookings of two dates, run to completion: create, edit, delete
NextManage ==
  \/ Settle
  \/ /\ pending = <<>>
     /\ \/ showAddQueueModal
        \/ closeModal
        \/ \E form \in BookingForms : saveQueue(form, MaxBookings)
        \/ \E id \in QueueIds : editQueue(id) \/ deleteQueue(id)

SpecManage == Init /\ [][NextManage]_vars

\* creating bookings for two dates, the calls interleaved at the awaited add
NextBooking ==
  \/ Tick
  \/ showAddQueueModal
  \/ closeModal
  \/ \E form \in BookingForms : saveQueue(form, MaxBookings)
  \/ Settle

SpecBooking == Init /\ [][NextBooking]_vars

\* the forms with add-ons: one main service or two (in the order of their
\* checkboxes, which is not the sorted one), and an add-on ticked or not
AddonForms ==
  QueueForms({"c1"}, {"p1"}, {""}, {<<"bath">>, <<"bathcut">>, <<"bathcut", "bath">>},
             {<<>>, <<"teeth">>}, {"2026-11-01"}, {<<9, 0>>})

\* creating and editing bookings with add-ons, run to completion
NextAddons ==
  \/ Settle
  \/ /\ pending = <<>>
     /\ \/ showAddQueueModal
        \/ closeModal
        \/ \E form \in AddonForms : saveQueue(form, MaxBookings)
        \/ \E id \in QueueIds : editQueue(id)

SpecAddons == Init /\ [][NextAddons]_vars

\* the forms with a time slot of the buttons updateTimeSlots offers, or none
TimeForms ==
  QueueForms({"c1"}, {"p1"}, {""}, {<<"bath">>}, {<<>>},
             {"2026-11-01"}, {<<>>, <<9, 0>>, <<14, 0>>})

\* booking, editing, deposit and check-in of an entry, interleaved at the
\* awaits
NextTimes ==
  \/ showAddQueueModal
  \/ closeModal
  \/ \E form \in TimeForms : saveQueue(form, MaxQueue)
  \/ \E id \in QueueIds :
       editQueue(id) \/ showDepositModal(id) \/ showCheckInModal(id)
  \/ saveDeposit
  \/ \E weight \in CheckInWeights, sel \in CheckInSelections : saveCheckIn(weight, sel)
  \/ Settle

SpecTimes == Init /\ [][NextTimes]_vars

MaxSubmitted == 4     \* store writes in flight when the completion is submitted twice

\* an entry taken to check-in with each handler run to completion, and the
\* completion form, which stays open until its write resolves, submitted at
\* any time
NextSubmit ==
  \/ Tick
  \/ Settle
  \/ \E groomerId \in CompletionGroomers, confirmed \in BOOLEAN :
       saveCompletionWithin(groomerId, confirmed, MaxSubmitted)
  \/ /\ pending = <<>>
     /\ \/ showAddQueueModal
        \/ \E form \in CompleteForms : saveQueue(form, MaxQueue)
        \/ \E id \in QueueIds :
             showDepositModal(id) \/ showCheckInModal(id) \/ showCompletionModal(id)
        \/ saveDeposit
        \/ \E weight \in CheckInWeights, sel \in CheckInSelections :
             saveCheckIn(weight, sel)

SpecSubmit == Init /\ [][NextSubmit]_vars

\* the forms with groomer g1 chosen in queue-groomer, at 9:00 or 9:30
GroomerForms ==
  QueueForms({"c1"}, {"p1"}, {"g1"}, {<<"bath">>}, {<<>>},
             {"2026-11-01"}, {<<9, 0>>, <<9, 30>>})

\* bookings for a chosen groomer, created and edited, run to completion
NextAssign ==
  \/ Settle
  \/ /\ pending = <<>>
     /\ \/ showAddQueueModal
        \/ closeModal
        \/ \E form \in GroomerForms : saveQueue(form, MaxBookings)
        \/ \E id \in QueueIds : editQueue(id)

SpecAssign == Init /\ [][NextAssign]_vars

----------------------------------------------------------------------------
(* Editing a service record *)

MsgDateRequired == "date required"
MsgServiceEdited == "service record edited"
MsgServiceEditFailed == "service record not edited"

\* edit-service-start-time and edit-service-end-time: <<>> is the empty field
EditTimes == {<<>>, <<9, 0>>, <<10, 0>>}

\* edit-service-date
EditDates == {"", "2026-11-01"}

\* constructDate(dateStr, timeStr) as a clock value counted from the midnight
\* of the date (0: null)
constructDate(dateStr, timeStr) ==
  IF timeStr = <<>> THEN 0
  ELSE ((timeStr[1] * 60 + timeStr[2]) * MsPerMinute) \div TickMs

\* newDuration of saveServiceUpdate
NewDuration(newCheckInAt, newCompletedAt) ==
  IF newCheckInAt # 0 /\ newCompletedAt # 0
    THEN RoundMinutes(newCompletedAt - newCheckInAt)
    ELSE 0

\* showEditServiceModal(serviceId)
showEditServiceModal(serviceId) ==
  /\ modal = "none"
  /\ FindIndex(serviceRecords, serviceId) # 0
  /\ currentServiceId' = serviceId
  /\ modal' = "editservice"
  /\ alertMsg' = ""
  /\ UNCHANGED <<groomers, dailySchedules, returned, queue, serviceRecords, pets,
                 pending, now, nextId, currentQueueId, editingQueueId>>

\* saveServiceUpdate up to the awaited update of updateServiceRecord
saveServiceUpdate(dateVal, startTimeVal, endTimeVal, groomerId) ==
  /\ modal = "editservice"
  /\ IF dateVal = ""
       THEN /\ alertMsg' = MsgDateRequired
            /\ UNCHANGED pending
       ELSE LET newCheckInAt == constructDate(dateVal, startTimeVal)
                newCompletedAt == constructDate(dateVal, endTimeVal)
            IN /\ Room(1)
               /\ pending' = Append(pending,
                    [kind |-> "serviceRecords.update", id |-> currentServiceId,
                     updates |-> [checkInAt |-> newCheckInAt,
                                  completedAt |-> newCompletedAt,
                                  duration |-> NewDuration(newCheckInAt, newCompletedAt),
                                  groomerId |-> groomerId]])
               /\ alertMsg' = ""
  /\ UNCHANGED <<roster, queue, serviceRecords, pets, now, nextId,
                 currentQueueId, editingQueueId, modal>>

\* updateServiceRecord after the await, and saveServiceUpdate after it
SettleServiceUpdate(i, ok) ==
  LET w == pending[i]
      index == FindIndex(serviceRecords, w.id)
  IN /\ w.kind = "serviceRecords.update"
     /\ pending' = RemoveAt(pending, i)
     /\ IF ok
          THEN /\ serviceRecords' =
                    IF index # 0
                      THEN [serviceRecords EXCEPT ![index] = Spread(@, w.updates)]
                      ELSE serviceRecords
               /\ modal' = Closed("editservice")
               /\ alertMsg' = MsgServiceEdited
          ELSE /\ alertMsg' = MsgServiceEditFailed
               /\ UNCHANGED <<serviceRecords, modal>>
     /\ UNCHANGED <<roster, queue, pets, now, nextId, currentQueueId, editingQueueId>>

\* an entry taken to completion and its service record edited, each handler
\* run to completion
NextRecords ==
  \/ Settle
  \/ \E i \in 1..Len(pending), ok \in BOOLEAN : SettleServiceUpdate(i, ok)
  \/ /\ pending = <<>>
     /\ \/ showAddQueueModal
        \/ closeModal
        \/ \E form \in CompleteForms : saveQueue(form, MaxQueue)
        \/ \E id \in QueueIds :
             showDepositModal(id) \/ showCheckInModal(id) \/ showCompletionModal(id)
        \/ saveDeposit
        \/ \E weight \in CheckInWeights, sel \in CheckInSelections :
             saveCheckIn(weight, sel)
        \/ \E groomerId \in CompletionGroomers, confirmed \in BOOLEAN :
             saveCompletion(groomerId, confirmed)
        \/ \E serviceId \in 1..MaxRecords : showEditServiceModal(serviceId)
        \/ \E dateVal \in EditDates, startTimeVal \in EditTimes,
              endTimeVal \in EditTimes, groomerId \in CompletionGroomers :
             saveServiceUpdate(dateVal, startTimeVal, endTimeVal, groomerId)

SpecRecords == Init /\ [][NextRecords]_vars

----------------------------------------------------------------------------
(* Availability queries of the DataStore *)

SlotStepMinutes == 30       \* findAvailableTimeSlots: a slot every 30 minutes
DefaultQueueDuration == 60  \* getAvailableGroomersForSlot: queue.duration || 60

\* settings.defaultWorkingHours
defaultWorkingHours == [start |-> <<9, 0>>, end |-> <<18, 0>>]

\* "HH:mm".split(':').map(Number) as minutes since midnight
Minutes(time) == time[1] * 60 + time[2]

HasSchedule(date) ==
  \E i \in 1..Len(dailySchedules) : dailySchedules[i].date = date

\* getDailySchedule(date): the first schedule of the date
getDailySchedule(date) ==
  LET found == SelectSeq(dailySchedules, LAMBDA ds : ds.date = date)
  IN found[1]

\* variant: every loaded groomer, active or not
AllGroomers == groomers

\* getActiveGroomers(): the groomer documents with isActive set
getActiveGroomers == SelectSeq(groomers, LAMBDA g : g.isActive)

\* the working-hours test of a scheduled groomer: const [workStart] = ... takes
\* the hour of "HH:mm" alone
OutsideWorkingHours(groomer, startMinutes, endMinutes) ==
  LET workStartMin == groomer.workingHours.start[1] * 60
      workEndMin == groomer.workingHours.end[1] * 60
  IN startMinutes < workStartMin \/ endMinutes > workEndMin

\* variant: the two intervals also conflict when they only touch
OverlapsClosed(startMinutes, endMinutes, qStartMinutes, qEndMinutes) ==
  ~(endMinutes < qStartMinutes \/ startMinutes > qEndMinutes)

\* the overlap check against one appointment
Overlaps(startMinutes, endMinutes, qStartMinutes, qEndMinutes) ==
  ~(endMinutes <= qStartMinutes \/ startMinutes >= qEndMinutes)

\* variant: a cancelled booking still counts as one of the groomer's
GroomerQueuesWithCancelled(queuesOnDate, groomer) ==
  SelectSeq(queuesOnDate, LAMBDA q : q.assignedGroomerId = groomer.groomerId)

\* groomerQueues: the bookings of the date that can block the groomer
GroomerQueues(queuesOnDate, groomer) ==
  SelectSeq(queuesOnDate, LAMBDA q :
    q.assignedGroomerId = groomer.groomerId /\ q.status # "cancelled")

\* the loop over groomerQueues: is there a time conflict
TimeConflict(groomerQueues, startMinutes, endMinutes) ==
  \E i \in 1..Len(groomerQueues) :
    LET q == groomerQueues[i]
    IN /\ q.appointmentTime # <<>>
       /\ LET qStartMinutes == Minutes(q.appointmentTime)
              qEndMinutes == qStartMinutes
                 + (IF q.duration # 0 THEN q.duration ELSE DefaultQueueDuration)
          IN Overlaps(startMinutes, endMinutes, qStartMinutes, qEndMinutes)

\* getAvailableGroomersForSlot(date, startTime, duration)
getAvailableGroomersForSlot(date, startTime, duration) ==
  IF ~HasSchedule(date) THEN getActiveGroomers
  ELSE LET startMinutes == Minutes(startTime)
           endMinutes == startMinutes + duration
           queuesOnDate == getQueueByDate(date)
       IN SelectSeq(getDailySchedule(date).groomers, LAMBDA groomer :
            /\ ~OutsideWorkingHours(groomer, startMinutes, endMinutes)
            /\ ~TimeConflict(GroomerQueues(queuesOnDate, groomer),
                             startMinutes, endMinutes))

\* DataStore.calculateEndTime(startTime, duration)
StoreCalculateEndTime(startTime, duration) ==
  LET endMinutes == Minutes(startTime) + duration
  IN <<endMinutes \div 60, endMinutes % 60>>

\* workHours of findAvailableTimeSlots: those of the first scheduled groomer,
\* else the shop default
WorkHours(date) ==
  IF HasSchedule(date) /\ Len(getDailySchedule(date).groomers) > 0
    THEN getDailySchedule(date).groomers[1].workingHours
    ELSE defaultWorkingHours

\* variant: slots are generated up to the end hour itself
LastSlotAtEnd(workHours, duration) == workHours.end[1] * 60

\* endMinutes of findAvailableTimeSlots: the last start a slot may have
LastSlotStart(workHours, duration) == workHours.end[1] * 60 - duration

\* the while loop of findAvailableTimeSlots
RECURSIVE SlotsFrom(_, _, _, _, _, _)
SlotsFrom(date, duration, currentMinutes, endMinutes, maxSlots, slots) ==
  IF currentMinutes <= endMinutes /\ Len(slots) < maxSlots
    THEN LET timeStr == <<currentMinutes \div 60, currentMinutes % 60>>
             availableGroomers == getAvailableGroomersForSlot(date, timeStr, duration)
         IN SlotsFrom(date, duration, currentMinutes + SlotStepMinutes, endMinutes,
                      maxSlots,
                      IF Len(availableGroomers) > 0
                        THEN Append(slots,
                               [time |-> timeStr,
                                endTime |-> StoreCalculateEndTime(timeStr, duration),
                                availableGroomers |-> Len(availableGroomers),
                                groomers |-> availableGroomers])
                        ELSE slots)
    ELSE slots

\* findAvailableTimeSlots(date, serviceTypes, maxSlots)
findAvailableTimeSlots(date, serviceTypes, maxSlots) ==
  LET duration == calculateServiceDuration(serviceTypes)
      workHours == WorkHours(date)
  IN SlotsFrom(date, duration, workHours.start[1] * 60,
               LastSlotStart(workHours, duration), maxSlots, <<>>)

----------------------------------------------------------------------------
(* The queries on a loaded day: groomers, schedules and bookings as the     *)
(* one-time fetch of initRealtimeListeners left them                        *)

MaxLoaded == 1        \* bookings loaded for the scheduled date
MaxServices == 3      \* services in a list handed to calculateServiceDuration

ScheduledDate == "2026-11-01"

\* the groomer documents: two groomers, each active or not
GroomerDocs ==
  {<<[id |-> "g1", isActive |-> a1], [id |-> "g2", isActive |-> a2]>> :
     a1 \in BOOLEAN, a2 \in BOOLEAN}

WorkingHours ==
  {[start |-> <<9, 0>>, end |-> <<18, 0>>], [start |-> <<9, 30>>, end |-> <<17, 30>>]}

\* an entry of schedule.groomers, as setDailySchedule builds it
ScheduledGroomer(groomerId, workingHours) ==
  [groomerId |-> groomerId, workingHours |-> workingHours]

\* the schedules loaded: none, or one for ScheduledDate listing no groomer,
\* g1, or g1 and g2
LoadedSchedules ==
  {<<>>}
    \cup {<<[date |-> ScheduledDate, groomers |-> gs]>> :
            gs \in {<<>>}
                     \cup {<<ScheduledGroomer("g1", h)>> : h \in WorkingHours}
                     \cup {<<ScheduledGroomer("g1", h1), ScheduledGroomer("g2", h2)>> :
                             h1 \in WorkingHours, h2 \in WorkingHours}}

\* a booking of g1 as addQueue stored it (one hour of 'bath')
LoadedBooking(id, appointmentTime, status) ==
  [id |-> id, queueNumber |-> id, customerId |-> "c1", petId |-> "p1",
   groomerId |-> "", serviceType |-> <<"bath">>, date |-> ScheduledDate,
   appointmentTime |-> appointmentTime,
   estimatedEndTime |-> AddQueueEndTime(appointmentTime, 60),
   duration |-> 60, assignedGroomerId |-> "g1", status |-> status,
   bookingAt |-> 1, depositAt |-> 0, checkInWeight |-> 0, checkInAt |-> 0,
   completedAt |-> 0]

BookingShapes ==
  [appointmentTime : {<<>>, <<9, 0>>, <<9, 30>>, <<10, 0>>},
   status : {"booking", "cancelled"}]

LoadedQueues ==
  UNION {{[i \in 1..n |-> LoadedBooking(i, f[i].appointmentTime, f[i].status)] :
            f \in [1..n -> BookingShapes]} : n \in 0..MaxLoaded}

InitLoaded ==
  /\ queue \in LoadedQueues
  /\ groomers \in GroomerDocs
  /\ dailySchedules \in LoadedSchedules
  /\ returned = <<>>
  /\ currentServiceId = 0
  /\ serviceRecords = <<>>
  /\ pets = [p1 |-> 0]
  /\ pending = <<>>
  /\ now = 1
  /\ nextId = Len(queue) + 1
  /\ currentQueueId = 0
  /\ editingQueueId = 0
  /\ modal = "none"
  /\ alertMsg = ""

workflow == <<queue, serviceRecords, pets, pending, now, nextId,
              currentQueueId, editingQueueId, modal, alertMsg>>

QueryTimes == {<<9, 0>>, <<9, 30>>, <<10, 0>>, <<16, 30>>, <<17, 0>>}
QueryDurations == {45, 60}

\* a call of getAvailableGroomersForSlot
AskAvailableGroomers(date, startTime, duration) ==
  /\ returned' = [fn |-> "getAvailableGroomersForSlot", date |-> date,
                  startTime |-> startTime, duration |-> duration,
                  result |-> getAvailableGroomersForSlot(date, startTime, duration)]
  /\ UNCHANGED <<workflow, groomers, dailySchedules, currentServiceId>>

SlotServices == {<<>>, <<"bath">>, <<"bathcut">>}
SlotLimits == {1, 10, 20}

\* a call of findAvailableTimeSlots
AskTimeSlots(date, serviceTypes, maxSlots) ==
  /\ returned' = [fn |-> "findAvailableTimeSlots", date |-> date,
                  serviceTypes |-> serviceTypes, maxSlots |-> maxSlots,
                  result |-> findAvailableTimeSlots(date, serviceTypes, maxSlots)]
  /\ UNCHANGED <<workflow, groomers, dailySchedules, currentServiceId>>

ServiceNames == {"bath", "bathcut", "boarding", "other", "teeth"}

ServiceLists == UNION {[1..n -> ServiceNames] : n \in 0..MaxServices}

\* a call of calculateServiceDuration
AskDuration(serviceTypes) ==
  /\ returned' = [fn |-> "calculateServiceDuration", serviceTypes |-> serviceTypes,
                  result |-> calculateServiceDuration(serviceTypes)]
  /\ UNCHANGED <<workflow, groomers, dailySchedules, currentServiceId>>

NextQueries ==
  \/ \E startTime \in QueryTimes, duration \in QueryDurations :
       AskAvailableGroomers(ScheduledDate, startTime, duration)
  \/ \E serviceTypes \in SlotServices, maxSlots \in SlotLimits :
       AskTimeSlots(ScheduledDate, serviceTypes, maxSlots)
  \/ \E id \in QueueIds : cancelQueue(id, TRUE)
  \/ Settle

SpecQueries == InitLoaded /\ [][NextQueries]_vars

\* the duration engine on every list of up to MaxServices services
NextDuration == \E serviceTypes \in ServiceLists : AskDuration(serviceTypes)

SpecDuration == Init /\ [][NextDuration]_vars

----------------------------------------------------------------------------
(* Properties *)

StageFields == {"bookingAt", "depositAt", "checkInAt", "completedAt"}

EntryOf(entries, id) == entries[FindIndex(entries, id)]

Last(s) == s[Len(s)]

\* the service records created for an entry: written, or on their way
RecordsCreatedFor(id) ==
  Cardinality({i \in 1..Len(serviceRecords) : serviceRecords[i].queueId = id})
    + Cardinality({i \in 1..Len(pending) :
                     /\ pending[i].kind = "serviceRecords.add"
                     /\ pending[i].record.queueId = id})

PendingRecords(writes) ==
  Cardinality({i \in 1..Len(writes) : writes[i].kind = "serviceRecords.add"})

\* C1: once an entry is completed, exactly one service record has been
\* created for it, whatever the sequence of workflow operations (a completion
\* whose queue write failed and was retried included).
C1_ExactlyOneRecord ==
  \A i \in 1..Len(queue) :
    queue[i].status = "completed" => RecordsCreatedFor(queue[i].id) = 1

\* C2: once a stage timestamp of an entry holds a value, no later updateQueue
\* call on the entry (a transition, re-entering a status, an edit) changes it.
C2_StampsKept ==
  [][\A id \in QueueIds : \A f \in StageFields :
       getQueueById(id)[f] # 0 =>
         /\ FindIndex(queue', id) # 0
         /\ EntryOf(queue', id)[f] = getQueueById(id)[f]]_vars

\* C2 witness: the entry re-entered 'deposit' at time 2, after its check-in,
\* and depositAt still holds the time of the first deposit
C2_Witness ==
  \E i \in 1..Len(queue) :
    /\ queue[i].status = "deposit"
    /\ queue[i].depositAt = 1
    /\ queue[i].checkInAt = 2

\* C3: once the status of an entry is 'completed' or 'cancelled', no workflow
\* entry point changes it.
C3_TerminalImmutable ==
  [][\A id \in QueueIds :
       (getQueueById(id).status \in {"completed", "cancelled"}
          /\ FindIndex(queue', id) # 0)
         => EntryOf(queue', id).status = getQueueById(id).status]_vars

StageRank(status) ==
  CASE status = "booking" -> 1
    [] status = "deposit" -> 2
    [] status = "check-in" -> 3
    [] status = "completed" -> 4
    [] OTHER -> 0

\* a move of the status that does not go back in the order of the stages
Forward(from, to) ==
  \/ to = "cancelled"
  \/ from = "cancelled"
  \/ StageRank(from) <= StageRank(to)

\* C4: no step takes an entry from a later stage of the order booking,
\* deposit, check-in, completed back to an earlier one, a stage modal submitted
\* for an entry that has advanced in the meantime included.
C4_ForwardOnly ==
  [][\A id \in QueueIds :
       FindIndex(queue', id) # 0
         => Forward(getQueueById(id).status, EntryOf(queue', id).status)]_vars

\* C5: cancelling an entry in a non-terminal status creates no service record
\* and sets no completedAt, neither when cancelQueue calls updateQueue nor
\* when its write settles.
C5_CancelCreatesNoRecord ==
  [][/\ \A id \in QueueIds :
          cancelQueue(id, TRUE) =>
            /\ PendingRecords(pending') = PendingRecords(pending)
            /\ serviceRecords' = serviceRecords
            /\ \A j \in 1..Len(pending') :
                 (pending'[j].kind = "queue.update"
                    /\ pending'[j].handler = "cancelQueue")
                   => ~Has(pending'[j].finalUpdates, "completedAt")
     /\ \A i \in 1..Len(pending), ok \in BOOLEAN :
          (/\ pending[i].kind = "queue.update"
           /\ pending[i].handler = "cancelQueue"
           /\ SettleUpdate(i, ok)
           /\ HasQueue(pending[i].id))
            => /\ serviceRecords' = serviceRecords
               /\ PendingRecords(pending') = PendingRecords(pending)
               /\ EntryOf(queue', pending[i].id).completedAt
                    = getQueueById(pending[i].id).completedAt]_vars

\* C5 witness: a cancelled entry without completedAt and without a record
C5_Witness ==
  \E i \in 1..Len(queue) :
    /\ queue[i].status = "cancelled"
    /\ queue[i].depositAt # 0
    /\ queue[i].completedAt = 0
    /\ RecordsCreatedFor(queue[i].id) = 0
    /\ pending = <<>>

\* C6: no two entries of the same date have the same queueNumber, after any
\* sequence of bookings, deletions and date-changing edits.
C6_UniquePerDate ==
  \A i, j \in 1..Len(queue) :
    (i # j /\ queue[i].date = queue[j].date)
      => queue[i].queueNumber # queue[j].queueNumber

\* the entries in memory for a date, counted as a set
CountOnDate(date) ==
  Cardinality({i \in 1..Len(queue) : queue[i].date = date})

\* C7: a booking made when the in-memory queue holds n entries of its date is
\* created with queueNumber n+1, status 'booking', bookingAt set, and no other
\* stage timestamp; the entry pushed after the add is that document.
C7_CreateBooking ==
  [][/\ \A form \in BookingForms :
          (saveQueue(form, MaxBookings) /\ Len(pending') = Len(pending) + 1) =>
            LET newQueue == Last(pending').newQueue
            IN /\ newQueue.queueNumber = CountOnDate(form.selectedDate) + 1
               /\ newQueue.date = form.selectedDate
               /\ newQueue.status = "booking"
               /\ newQueue.bookingAt = now
               /\ newQueue.depositAt = 0
               /\ newQueue.checkInAt = 0
               /\ newQueue.completedAt = 0
     /\ \A i \in 1..Len(pending) :
          SettleAdd(i, TRUE) =>
            /\ Len(queue') = Len(queue) + 1
            /\ SubSeq(queue', 1, Len(queue)) = queue
            /\ \A f \in DOMAIN pending[i].newQueue :
                 Last(queue')[f] = pending[i].newQueue[f]]_vars

\* C7 witness: the third booking of a date, numbered 3
C7_Witness ==
  /\ Len(queue) = 3
  /\ \A i \in 1..3 : queue[i].date = queue[1].date /\ queue[i].queueNumber = i
  /\ queue[3].status = "booking"
  /\ queue[3].bookingAt # 0

\* C8: a booking whose count of the date is read while another booking of the
\* date that read the same count is still suspended at its add gets the same
\* queueNumber as that one: the assignment ignores the bookings in flight.
C8_InterleavedSameNumber ==
  [][\A form \in BookingForms :
       (saveQueue(form, MaxBookings) /\ Len(pending') = Len(pending) + 1) =>
         \A j \in 1..Len(pending) :
           (/\ pending[j].kind = "queue.add"
            /\ pending[j].newQueue.date = form.selectedDate
            /\ pending[j].newQueue.queueNumber = CountOnDate(form.selectedDate) + 1)
             => Last(pending').newQueue.queueNumber
                  = pending[j].newQueue.queueNumber]_vars

\* C8 witness: two entries of one date carry the same queueNumber
C8_Witness ==
  \E i, j \in 1..Len(queue) :
    /\ i # j
    /\ queue[i].date = queue[j].date
    /\ queue[i].queueNumber = queue[j].queueNumber

\* the in-memory collections and the writes in flight
stored == <<queue, serviceRecords, pets, pending>>

\* C9: a booking with a missing customer, pet or date or without a service, a
\* check-in without a positive weight, and a completion without a servicing
\* groomer issue no store write and leave every entry, pet and record as it
\* was.
C9_ValidationBlocks ==
  [][/\ \A form \in WorkflowForms :
          (/\ \/ form.customerId = ""
              \/ form.petId = ""
              \/ form.selectedDate = ""
              \/ Len(form.serviceTypes) + Len(form.addons) = 0
           /\ saveQueue(form, MaxQueue))
            => UNCHANGED stored
     /\ \A weight \in CheckInWeights, sel \in CheckInSelections :
          (weight <= 0 /\ saveCheckIn(weight, sel)) => UNCHANGED stored
     /\ \A confirmed \in BOOLEAN :
          saveCompletion("", confirmed) => UNCHANGED stored]_vars

\* C9 witness: the completion was refused for its missing groomer, and the
\* entry is still in check-in with nothing written
C9_Witness ==
  /\ alertMsg = MsgNoGroomer
  /\ modal = "completion"
  /\ pending = <<>>
  /\ serviceRecords = <<>>
  /\ HasQueue(currentQueueId)
  /\ getQueueById(currentQueueId).status = "check-in"
  /\ getQueueById(currentQueueId).completedAt = 0

\* the end time of a slot and a duration, in minutes since midnight
SlotEnd(slot, duration) ==
  LET t == slot[1] * 60 + slot[2] + duration IN <<t \div 60, t % 60>>

\* C10: the edit of an entry carries the recomputed duration and end time and
\* neither a status nor a stage timestamp, and when its write settles the
\* status and the stage timestamps of the entry are what they were.
C10_EditKeepsStage ==
  [][/\ \A form \in WorkflowForms :
          (/\ editingQueueId # 0
           /\ HasQueue(editingQueueId)
           /\ saveQueue(form, MaxQueue)
           /\ pending' # pending)
            => LET updates == Last(pending').finalUpdates
               IN /\ Last(pending').id = editingQueueId
                  /\ DOMAIN updates \cap (StageFields \cup {"status"}) = {}
                  /\ updates.duration = calculateServiceDuration(form.serviceTypes)
                  /\ updates.estimatedEndTime
                       = SlotEnd(form.selectedTimeSlot, updates.duration)
     /\ \A i \in 1..Len(pending), ok \in BOOLEAN :
          (/\ pending[i].kind = "queue.update"
           /\ pending[i].handler = "saveQueue"
           /\ SettleUpdate(i, ok)
           /\ HasQueue(pending[i].id))
            => LET before == getQueueById(pending[i].id)
                   after == EntryOf(queue', pending[i].id)
               IN /\ after.status = before.status
                  /\ \A f \in StageFields : after[f] = before[f]
                  /\ ok => /\ after.duration = pending[i].finalUpdates.duration
                            /\ after.estimatedEndTime
                                 = pending[i].finalUpdates.estimatedEndTime]_vars

\* C10 witness: an entry booked for 'bath' at time 1, in deposit since, was
\* edited to 'bathcut': two hours from 09:00, status and timestamps kept
C10_Witness ==
  /\ editingQueueId # 0
  /\ modal = "none"
  /\ pending = <<>>
  /\ HasQueue(editingQueueId)
  /\ LET q == getQueueById(editingQueueId)
     IN /\ q.status = "deposit"
        /\ q.bookingAt = 1
        /\ q.depositAt # 0
        /\ q.serviceType = <<"bathcut">>
        /\ q.duration = 120
        /\ q.estimatedEndTime = <<11, 0>>

\* C11: when the remote write of addQueue or updateQueue fails, the in-memory
\* queue, pets and serviceRecords are exactly what they were when the
\* operation started.
C11_MirrorUnchangedOnFailure ==
  [][\A i \in 1..Len(pending) :
       (/\ pending[i].kind \in {"queue.add", "queue.update"}
        /\ pending[i].before # <<>>
        /\ SettleAdd(i, FALSE) \/ SettleUpdate(i, FALSE))
         => data' = pending[i].before]_vars

\* the ids of the groomers a query returned (schedule entries carry groomerId,
\* groomer documents carry id)
ReturnedIds(result) ==
  {(IF Has(result[k], "groomerId") THEN result[k].groomerId ELSE result[k].id) :
     k \in 1..Len(result)}

\* a non-cancelled booking of the groomer and date with an appointment time
\* whose interval [s2, e2) satisfies start < e2 and s2 < start + duration
ConflictingBooking(groomerId, date, startTime, duration) ==
  \E i \in 1..Len(queue) :
    /\ queue[i].date = date
    /\ queue[i].assignedGroomerId = groomerId
    /\ queue[i].status # "cancelled"
    /\ queue[i].appointmentTime # <<>>
    /\ LET s2 == queue[i].appointmentTime[1] * 60 + queue[i].appointmentTime[2]
           e2 == s2 + queue[i].duration
           start == startTime[1] * 60 + startTime[2]
       IN start < e2 /\ s2 < start + duration

\* C12: on a scheduled date, a groomer that passes the working-hours test is
\* returned by getAvailableGroomersForSlot iff none of its bookings [s2, e2)
\* has start < e2 and s2 < start + duration: back-to-back intervals do not
\* conflict, overlapping ones do, and a groomer with a conflict is not returned.
C12_ConflictIffOverlap ==
  [][\A startTime \in QueryTimes, duration \in QueryDurations :
       (HasSchedule(ScheduledDate)
          /\ AskAvailableGroomers(ScheduledDate, startTime, duration))
         => \A k \in 1..Len(getDailySchedule(ScheduledDate).groomers) :
              LET groomer == getDailySchedule(ScheduledDate).groomers[k]
                  start == startTime[1] * 60 + startTime[2]
              IN ~OutsideWorkingHours(groomer, start, start + duration)
                   => (groomer.groomerId \in ReturnedIds(returned'.result)
                         <=> ~ConflictingBooking(groomer.groomerId, ScheduledDate,
                                                 startTime, duration))]_vars

\* C12 witness: g1 is booked [9:00, 10:00) and is returned for [10:00, 11:00)
C12_Witness ==
  /\ returned # <<>>
  /\ returned.fn = "getAvailableGroomersForSlot"
  /\ returned.startTime = <<10, 0>>
  /\ returned.duration = 60
  /\ HasSchedule(ScheduledDate)
  /\ "g1" \in ReturnedIds(returned.result)
  /\ \E i \in 1..Len(queue) :
       /\ queue[i].assignedGroomerId = "g1"
       /\ queue[i].status = "booking"
       /\ queue[i].appointmentTime = <<9, 0>>
       /\ queue[i].duration = 60

\* the interval lies within the groomer's working hours, both taken in minutes
WithinWorkingHours(groomer, startTime, duration) ==
  LET start == startTime[1] * 60 + startTime[2]
      workStart == groomer.workingHours.start[1] * 60 + groomer.workingHours.start[2]
      workEnd == groomer.workingHours.end[1] * 60 + groomer.workingHours.end[2]
  IN workStart <= start /\ start + duration <= workEnd

\* C13: a scheduled groomer is rejected iff [startTime, startTime+duration)
\* falls outside its working hours measured in minutes: it is returned only if
\* workStart <= startTime and startTime+duration <= workEnd, and it is returned
\* when that holds and no booking conflicts.
C13_WorkingHoursInMinutes ==
  [][\A startTime \in QueryTimes, duration \in QueryDurations :
       (HasSchedule(ScheduledDate)
          /\ AskAvailableGroomers(ScheduledDate, startTime, duration))
         => \A k \in 1..Len(getDailySchedule(ScheduledDate).groomers) :
              LET groomer == getDailySchedule(ScheduledDate).groomers[k]
                  isReturned == groomer.groomerId \in ReturnedIds(returned'.result)
              IN /\ isReturned => WithinWorkingHours(groomer, startTime, duration)
                 /\ (WithinWorkingHours(groomer, startTime, duration)
                       /\ ~ConflictingBooking(groomer.groomerId, ScheduledDate,
                                              startTime, duration))
                      => isReturned]_vars

\* the groomer document of that id says the groomer is inactive
Inactive(groomerId) ==
  \E i \in 1..Len(groomers) : groomers[i].id = groomerId /\ ~groomers[i].isActive

\* C14: neither getAvailableGroomersForSlot nor findAvailableTimeSlots returns
\* or counts a groomer whose isActive flag is false, with or without a
\* schedule for the date.
C14_InactiveExcluded ==
  [][/\ \A startTime \in QueryTimes, duration \in QueryDurations :
          AskAvailableGroomers(ScheduledDate, startTime, duration)
            => \A id \in ReturnedIds(returned'.result) : ~Inactive(id)
     /\ \A serviceTypes \in SlotServices, maxSlots \in SlotLimits :
          AskTimeSlots(ScheduledDate, serviceTypes, maxSlots)
            => \A k \in 1..Len(returned'.result) :
                 \A id \in ReturnedIds(returned'.result[k].groomers) : ~Inactive(id)]_vars

\* every booking of the groomer on the date is cancelled or has no
\* appointment time
OnlyIdleBookings(groomerId, date) ==
  \A i \in 1..Len(queue) :
    (queue[i].date = date /\ queue[i].assignedGroomerId = groomerId)
      => (queue[i].status = "cancelled" \/ queue[i].appointmentTime = <<>>)

\* C15: a booking that is cancelled or has no appointment time never makes
\* its groomer unavailable: a scheduled groomer within its working hours whose
\* bookings are all of that kind is returned, also after a cancellation.
C15_IdleBookingsNeverBlock ==
  [][\A startTime \in QueryTimes, duration \in QueryDurations :
       (HasSchedule(ScheduledDate)
          /\ AskAvailableGroomers(ScheduledDate, startTime, duration))
         => \A k \in 1..Len(getDailySchedule(ScheduledDate).groomers) :
              LET groomer == getDailySchedule(ScheduledDate).groomers[k]
                  start == startTime[1] * 60 + startTime[2]
              IN (~OutsideWorkingHours(groomer, start, start + duration)
                    /\ OnlyIdleBookings(groomer.groomerId, ScheduledDate))
                   => groomer.groomerId \in ReturnedIds(returned'.result)]_vars

\* C15 witness: g1's booking at 9:00 is cancelled and g1 is returned for 9:00
C15_Witness ==
  /\ returned # <<>>
  /\ returned.fn = "getAvailableGroomersForSlot"
  /\ returned.startTime = <<9, 0>>
  /\ returned.duration = 60
  /\ HasSchedule(ScheduledDate)
  /\ "g1" \in ReturnedIds(returned.result)
  /\ pending = <<>>
  /\ \E i \in 1..Len(queue) :
       /\ queue[i].assignedGroomerId = "g1"
       /\ queue[i].status = "cancelled"
       /\ queue[i].appointmentTime = <<9, 0>>

\* the ids of the groomer documents whose isActive flag is set
ActiveIds ==
  {groomers[k].id : k \in {j \in 1..Len(groomers) : groomers[j].isActive}}

\* C16: on a date without a schedule the available groomers are exactly the
\* active groomers, each once, whatever bookings exist on that date.
C16_NoScheduleAllActive ==
  [][\A startTime \in QueryTimes, duration \in QueryDurations :
       (~HasSchedule(ScheduledDate)
          /\ AskAvailableGroomers(ScheduledDate, startTime, duration))
         => /\ ReturnedIds(returned'.result) = ActiveIds
            /\ Len(returned'.result) = Cardinality(ActiveIds)]_vars

\* C16 witness: no schedule, g1 is active and booked at 9:00, g2 is inactive,
\* and the query for 9:00 returned g1
C16_Witness ==
  /\ returned # <<>>
  /\ returned.fn = "getAvailableGroomersForSlot"
  /\ returned.startTime = <<9, 0>>
  /\ ~HasSchedule(ScheduledDate)
  /\ ReturnedIds(returned.result) = {"g1"}
  /\ \E k \in 1..Len(groomers) : groomers[k].id = "g2" /\ ~groomers[k].isActive
  /\ \E i \in 1..Len(queue) :
       /\ queue[i].assignedGroomerId = "g1"
       /\ queue[i].status # "cancelled"
       /\ queue[i].appointmentTime = <<9, 0>>

\* the end of the working-hours window of the date, as full HH:mm in minutes
WindowEnd(date) == Minutes(WorkHours(date).end)

\* C17: findAvailableTimeSlots never returns a slot whose start plus the
\* duration of the services passes the end of the working-hours window (the
\* first scheduled groomer's hours, else the shop default), taken as HH:mm.
\* The schedules never change after loading, so the window of the call is
\* the window of the state that holds its result.
C17_SlotsEndInsideWindow ==
  (returned # <<>> /\ returned.fn = "findAvailableTimeSlots")
    => \A k \in 1..Len(returned.result) :
         Minutes(returned.result[k].time)
           + calculateServiceDuration(returned.serviceTypes)
             <= WindowEnd(returned.date)

\* C17 witness: the window ends at 17:30 and the last slot returned for a
\* two-hour service starts at 15:00, the last start the loop allows
C17_Witness ==
  /\ returned # <<>>
  /\ returned.fn = "findAvailableTimeSlots"
  /\ returned.serviceTypes = <<"bathcut">>
  /\ WorkHours(ScheduledDate).end = <<17, 30>>
  /\ Len(returned.result) > 0
  /\ Last(returned.result).time = <<15, 0>>

\* the services of the list are all rows of the duration table
AllInTable(serviceTypes) ==
  \A k \in 1..Len(serviceTypes) : Has(serviceDurations, serviceTypes[k])

\* the sum of the table's durations of the services, a service without a row
\* counting as nothing
RECURSIVE TableSum(_)
TableSum(s) ==
  IF s = <<>> THEN 0
  ELSE (IF Has(serviceDurations, Head(s)) THEN serviceDurations[Head(s)] ELSE 0)
       + TableSum(Tail(s))

\* C18: calculateServiceDuration returns 60 for an empty list; the table's
\* value of the sorted, comma-joined key when the table has that key, also
\* when the value is 0; otherwise the sum of the services' own durations.
C18_ComboOrSum ==
  (returned # <<>> /\ returned.fn = "calculateServiceDuration")
    => LET serviceTypes == returned.serviceTypes
           servicesKey == Join(Sort(serviceTypes))
       IN /\ Len(serviceTypes) = 0 => returned.result = 60
          /\ (Len(serviceTypes) > 0 /\ Has(serviceDurations, servicesKey))
               => returned.result = serviceDurations[servicesKey]
          /\ (Len(serviceTypes) > 0 /\ ~Has(serviceDurations, servicesKey)
                /\ AllInTable(serviceTypes))
               => returned.result = TableSum(serviceTypes)

\* every service of the list that has a row in the table has a duration
\* other than 0 there
NoZeroRow(serviceTypes) ==
  \A k \in 1..Len(serviceTypes) :
    Has(serviceDurations, serviceTypes[k]) => serviceDurations[serviceTypes[k]] # 0

\* C19: with the duration table present, a service that has no row in the
\* table adds nothing to the sum calculateServiceDuration returns.
C19_UnknownAddsNothing ==
  (/\ returned # <<>>
   /\ returned.fn = "calculateServiceDuration"
   /\ Len(returned.serviceTypes) > 0
   /\ ~Has(serviceDurations, Join(Sort(returned.serviceTypes)))
   /\ NoZeroRow(returned.serviceTypes))
    => returned.result = TableSum(returned.serviceTypes)

\* the document a queue write hands to the store
WrittenDoc(w) == IF w.kind = "queue.add" THEN w.newQueue ELSE w.finalUpdates

C21_EndTimeIsStartPlusDuration ==
  \A i \in 1..Len(queue) :
    LET q == queue[i]
        end == Minutes(q.appointmentTime) + q.duration
    IN IF q.appointmentTime # <<>>
         THEN q.estimatedEndTime = <<end \div 60, end % 60>>
         ELSE q.estimatedEndTime = <<>>

\* the service records in memory and those on their way to the store
AllRecords ==
  {serviceRecords[i] : i \in 1..Len(serviceRecords)}
    \cup {pending[i].record :
            i \in {j \in 1..Len(pending) : pending[j].kind = "serviceRecords.add"}}

\* milliseconds to minutes, rounded to the nearest, a half upwards
NearestMinute(ms) == (2 * ms + MsPerMinute) \div (2 * MsPerMinute)

\* C22: a service record's duration is the minutes from checkInAt to
\* completedAt, rounded; for an entry completed without a check-in the time
\* of completion stands in for the missing checkInAt, so the duration is 0.
C22_RecordDuration ==
  \A r \in AllRecords :
    LET start == IF r.checkInAt # 0 THEN r.checkInAt ELSE r.completedAt
    IN /\ r.completedAt # 0
       /\ r.duration = NearestMinute((r.completedAt - start) * TickMs)

\* C22 witness: an entry was completed without ever being checked in, at a
\* later time than its booking, and its record is in memory
C22_Witness ==
  \E i \in 1..Len(serviceRecords) :
    /\ serviceRecords[i].checkInAt = 0
    /\ serviceRecords[i].completedAt = MaxClock
    /\ serviceRecords[i].duration = 0

\* C23: calculateServiceDuration leaves the list it is given as it was, so the
\* service list saveQueue persists is the main services in the order of their
\* selection, followed by the add-ons.
C23_SelectionOrderKept ==
  [][\A form \in AddonForms :
       (saveQueue(form, MaxBookings) /\ pending' # pending)
         => WrittenDoc(Last(pending')).serviceType = form.serviceTypes \o form.addons]_vars

\* how often the service occurs in the list
Occurrences(s, x) == Cardinality({i \in 1..Len(s) : s[i] = x})

\* the two lists hold the same services, each as often, in any order
IsPermutation(s, t) ==
  /\ Len(s) = Len(t)
  /\ \A x \in ServiceNames : Occurrences(s, x) = Occurrences(t, x)

\* C24: calculateServiceDuration returns the same value for a list of
\* services and for every permutation of it.
C24_OrderIndependent ==
  (returned # <<>> /\ returned.fn = "calculateServiceDuration")
    => \A other \in ServiceLists :
         IsPermutation(other, returned.serviceTypes)
           => calculateServiceDuration(other) = returned.result

\* C24 witness: the duration of a list given in an order other than the
\* sorted one was returned
C24_Witness ==
  /\ returned # <<>>
  /\ returned.fn = "calculateServiceDuration"
  /\ returned.serviceTypes = <<"bathcut", "other", "bath">>
  /\ returned.result = 210

\* the scan as stated: candidates from the start of the window in steps of 30
\* minutes while candidate + duration <= end of the window, start and end as
\* HH:mm; a slot for each candidate with a groomer available, up to maxSlots
StatedScan(date, duration, maxSlots) ==
  SlotsFrom(date, duration, Minutes(WorkHours(date).start),
            Minutes(WorkHours(date).end) - duration, maxSlots, <<>>)

\* C25: findAvailableTimeSlots returns the first maxSlots candidates of that
\* scan at which getAvailableGroomersForSlot returns a groomer, in ascending
\* order, each with the number of groomers available at its start.
C25_GreedyScan ==
  [][\A serviceTypes \in SlotServices, maxSlots \in SlotLimits :
       AskTimeSlots(ScheduledDate, serviceTypes, maxSlots)
         => returned'.result =
              StatedScan(ScheduledDate, calculateServiceDuration(serviceTypes), maxSlots)]_vars

\* the service records of an entry among the records in memory and the
\* writes in flight
RecordsAmong(records, writes, id) ==
  Cardinality({i \in 1..Len(records) : records[i].queueId = id})
    + Cardinality({i \in 1..Len(writes) :
                     /\ writes[i].kind = "serviceRecords.add"
                     /\ writes[i].record.queueId = id})

\* C26: when the queue write of a completion fails, the entry keeps its
\* status and no service record of the entry exists, in memory or on its way
\* to the store.
C26_NoRecordWithoutCompletion ==
  [][\A i \in 1..Len(pending) :
       (/\ pending[i].kind = "queue.update"
        /\ pending[i].handler = "saveCompletion"
        /\ SettleUpdate(i, FALSE))
         => /\ EntryOf(queue', pending[i].id).status # "completed"
            /\ RecordsAmong(serviceRecords', pending', pending[i].id) = 0]_vars

\* a completion of the entry is on its way to the store
CompletionInFlight(id) ==
  \E j \in 1..Len(pending) :
    /\ pending[j].kind = "queue.update"
    /\ pending[j].handler = "saveCompletion"
    /\ pending[j].id = id

\* C27: a completion submitted while the queue write of an earlier completion
\* of the same entry is still in flight creates no second service record and
\* stamps no second completedAt.
C27_SecondSubmissionAddsNothing ==
  [][\A groomerId \in CompletionGroomers :
       (/\ CompletionInFlight(currentQueueId)
        /\ saveCompletionWithin(groomerId, TRUE, MaxSubmitted))
         => /\ PendingRecords(pending') = PendingRecords(pending)
            /\ \A j \in Len(pending) + 1..Len(pending') :
                 pending'[j].kind = "queue.update"
                   => ~Has(pending'[j].finalUpdates, "completedAt")]_vars

\* the entry occupies its groomer: it is assigned, not cancelled and has an
\* appointment time
Occupies(q) ==
  q.assignedGroomerId # "" /\ q.status # "cancelled" /\ q.appointmentTime # <<>>

\* C28: no groomer has two entries on the same date that both occupy the
\* groomer and whose intervals [appointmentTime, appointmentTime + duration)
\* overlap.
C28_NoDoubleBooking ==
  \A i, j \in 1..Len(queue) :
    (/\ i # j
     /\ Occupies(queue[i]) /\ Occupies(queue[j])
     /\ queue[i].date = queue[j].date
     /\ queue[i].assignedGroomerId = queue[j].assignedGroomerId)
      => \/ Minutes(queue[i].appointmentTime) + queue[i].duration
              <= Minutes(queue[j].appointmentTime)
         \/ Minutes(queue[j].appointmentTime) + queue[j].duration
              <= Minutes(queue[i].appointmentTime)

\* C29: the status of an entry and its stage timestamps agree: 'booking' has
\* no depositAt, checkInAt or completedAt; 'deposit' has depositAt and no
\* checkInAt; 'check-in' has depositAt and checkInAt and no completedAt;
\* 'completed' has checkInAt and completedAt, checkInAt not after completedAt.
C29_StatusAgreesWithStamps ==
  \A i \in 1..Len(queue) :
    LET q == queue[i]
    IN /\ q.status = "booking"
            => q.depositAt = 0 /\ q.checkInAt = 0 /\ q.completedAt = 0
       /\ q.status = "deposit" => q.depositAt # 0 /\ q.checkInAt = 0
       /\ q.status = "check-in"
            => q.depositAt # 0 /\ q.checkInAt # 0 /\ q.completedAt = 0
       /\ q.status = "completed"
            => q.checkInAt # 0 /\ q.completedAt # 0 /\ q.checkInAt <= q.completedAt

\* C30: the duration of a service record is never negative, as created at
\* completion or as recomputed by saveServiceUpdate from the edited times.
C30_DurationNotNegative ==
  \A r \in AllRecords : r.duration >= 0

====
